---- MODULE Spec2Model ----
(***************************************************************************)
(* Model of packages/near-membrane-dom/src/browser-realm.ts:               *)
(* createIframeVirtualEnvironment and createDetachableIframe, with the     *)
(* two module-level caches (defaultGlobalOwnKeys and                       *)
(* blueDocumentToBlueCreateHooksCallbackMap) and the host document tree.   *)
(*                                                                         *)
(* JavaScript is run-to-completion, so one call is one action.  A call may *)
(* be cut short by an exception thrown by a collaborator; the action then  *)
(* commits exactly the assignments made before the throwing statement.     *)
(*                                                                         *)
(* The collaborators imported from '@locker/near-membrane-base' and        *)
(* './window' are modelled by their documented interface.                  *)
(***************************************************************************)
EXTENDS Naturals, Sequences, FiniteSets, TLC

VARIABLES
    tree,                                     \* host document trees: the iframes attached under each document
    defaultGlobalOwnKeys,                     \* browser-realm.ts:70
    blueDocumentToBlueCreateHooksCallbackMap, \* browser-realm.ts:66-68
    calls,                                    \* one short record per call made so far
    last,                                     \* what the most recent call did, in detail
    proc,                                     \* calls in progress, when calls may interleave
    overlap                                   \* whether two such calls have raced on a cache

vars == <<tree, defaultGlobalOwnKeys, blueDocumentToBlueCreateHooksCallbackMap, calls, last,
          proc, overlap>>

\* Number of calls of createIframeVirtualEnvironment in one behaviour.
MaxCalls == 2

\* Number of calls that may be in progress at once in the interleaved reading.
MaxRacers == 2

Racers == 1..MaxRacers

----------------------------------------------------------------------------
(* Values handed to the function by its caller and by the browser.         *)

\* JavaScript values a caller may pass as globalObject.
GlobalObjectInputs == {"window1", "window2", "orphan", "null", "fn"}

\* typeof v
TypeOf(v) ==
    CASE v \in {"window1", "window2", "orphan", "null", "shapeA"} -> "object"
      [] v = "fn" -> "function"
      [] OTHER -> "undefined"

Docs == {"doc1", "doc2"}

\* 0 stands for undefined / null where an identity (a positive number) is expected.
Undefined == 0

\* Own keys of the host windows: the host application has added a global.
OwnKeys(obj) ==
    CASE obj = "window1" -> <<"window", "document", "Object", "alert", "fetch", "appGlobal">>
      [] obj = "window2" -> <<"window", "document", "Object", "alert", "appGlobal">>
      [] obj = "shapeA"  -> <<"window", "document", "Object", "alert", "foo">>
      [] OTHER -> <<>>

\* Own keys of the fresh window of an iframe created in document d.
RedWindowOwnKeys(d) ==
    IF d = "doc1" THEN <<"window", "document", "Object", "alert", "fetch">>
                  ELSE <<"window", "document", "Object", "alert">>

\* document.body is null for doc2 (its document element has no body child).
HasBody(d) == d = "doc1"

EventTargetProtoOwnKeys == <<"addEventListener", "dispatchEvent">>

\* The caller's endowments objects: name -> descriptor value.
EndowmentMap(e) ==
    CASE e = "foo42"   -> [n \in {"foo"} |-> 42]
      [] e = "collide" -> [n \in {"document", "window", "Object", "alert"} |->
                              IF n = "alert" THEN 9 ELSE 1]
      [] OTHER -> [n \in {} |-> 0]

EndowmentInputs == {"omitted", "foo42", "collide"}
ShapeInputs == {"omitted", "null", "shapeA"}
KeepAliveInputs == {"false", "true"}

\* options === undefined: every field is read as undefined.
NoOptions ==
    [given |-> FALSE, keepAlive |-> "omitted", globalObjectShape |-> "omitted",
     endowments |-> "omitted"]

OptionInputs ==
    {NoOptions} \cup
    [given : {TRUE}, keepAlive : KeepAliveInputs, globalObjectShape : ShapeInputs,
     endowments : EndowmentInputs]

----------------------------------------------------------------------------
(* Helpers on sequences and maps.                                          *)

SeqToSet(s) == {s[i] : i \in 1..Len(s)}

\* s without the elements of drop, order kept.
Without(s, drop) == SelectSeq(s, LAMBDA k : k \notin drop)

\* The map m without the names in drop (delete m[k]).
DeleteKeys(m, drop) == [n \in (DOMAIN m) \ drop |-> m[n]]

\* Object.assign-like overlay: the entries of over win.
Overlay(under, over) ==
    [n \in (DOMAIN under) \cup (DOMAIN over) |-> IF n \in DOMAIN over THEN over[n] ELSE under[n]]

EmptyMap == [n \in {} |-> 0]

----------------------------------------------------------------------------
(* Collaborators (./window and @locker/near-membrane-base).                *)

\* Names of ECMAScript intrinsics, linked by linkIntrinsics and never remapped.
ESGlobalKeys == {"Object"}

\* Unforgeable window names that cannot be installed on a window.
UnforgeableWindowKeys == {"document"}

\* The block-list passed to lazyRemapProperties when the iframe is detached.
unforgeablePoisonedWindowKeys == {"window"}

\* Names owned by the window: what removeWindowDescriptors deletes.
WindowDescriptorNames == UnforgeableWindowKeys \cup unforgeablePoisonedWindowKeys

\* getCachedGlobalObjectReferences(globalObject).document, or "none" when no
\* record can be resolved.  "fn" is a function object that carries the
\* window and document properties of window1.
getCachedGlobalObjectReferences(g) ==
    CASE g \in {"window1", "fn"} -> "doc1"
      [] g = "window2" -> "doc2"
      [] OTHER -> "none"

getFilteredGlobalOwnKeys(obj) == Without(OwnKeys(obj), ESGlobalKeys)

getFilteredRedOwnKeys(d) == Without(RedWindowOwnKeys(d), ESGlobalKeys)

filterWindowKeys(keys) == Without(keys, UnforgeableWindowKeys)

\* Copies the descriptors of source into descMap, skipping intrinsic names.
assignFilteredGlobalDescriptorsFromPropertyDescriptorMap(descMap, source) ==
    Overlay(descMap, DeleteKeys(source, ESGlobalKeys))

\* Deletes the window-owned names from the map it is given (in place).
removeWindowDescriptors(descs) == DeleteKeys(descs, WindowDescriptorNames)

\* env.lazyRemapProperties(target, keys, exclude): a lazy accessor per key
\* that is not excluded.
lazyRemapProperties(surface, keys, exclude) ==
    Overlay(surface, [n \in SeqToSet(keys) \ exclude |-> [kind |-> "lazy", value |-> 0]])

\* env.remapProperties(target, descriptors): each descriptor installed at once.
remapProperties(surface, descs) ==
    Overlay(surface, [n \in DOMAIN descs |-> [kind |-> "eager", value |-> descs[n]]])

----------------------------------------------------------------------------
(* browser-realm.ts                                                        *)

KeepAliveOf_DefaultTrue(options) == options.keepAlive # "false"

\* const { keepAlive = false } = ObjectAssign({ __proto__: null }, options)
KeepAliveOf(options) == options.keepAlive = "true"

\* typeof globalObjectShape !== 'object' || globalObjectShape === null
shouldUseDefaultGlobalOwnKeys_Always(shape) == TRUE

shouldUseDefaultGlobalOwnKeys(shape) == TypeOf(shape) # "object" \/ shape = "null"

\* The value of the cache cell while it is still null.
NullKeys == [isNull |-> TRUE, keys |-> <<>>]

ShouldComputeDefaultKeys_Always(shape, cache) == shouldUseDefaultGlobalOwnKeys(shape)

\* The guard of the cache write.
ShouldComputeDefaultKeys(shape, cache) ==
    shouldUseDefaultGlobalOwnKeys(shape) /\ cache.isNull

ComputeDefaultKeys_FromGlobal(globalObject, doc) ==
    filterWindowKeys(getFilteredGlobalOwnKeys(globalObject))

\* filterWindowKeys(getFilteredGlobalOwnKeys(redWindow)): the keys of the
\* fresh iframe window, not of the caller's globalObject.
ComputeDefaultKeys(globalObject, doc) == filterWindowKeys(getFilteredRedOwnKeys(doc))

DefaultKeysAfter_Recompute(globalObject, doc, shape, cache) ==
    IF shouldUseDefaultGlobalOwnKeys(shape)
    THEN [isNull |-> FALSE, keys |-> ComputeDefaultKeys(globalObject, doc)]
    ELSE cache

\* The cache cell after the conditional write.
DefaultKeysAfter(globalObject, doc, shape, cache) ==
    IF ShouldComputeDefaultKeys(shape, cache)
    THEN [isNull |-> FALSE, keys |-> ComputeDefaultKeys(globalObject, doc)]
    ELSE cache

ResolveBlueConnector_AlwaysCreate(map, doc, fresh) ==
    [connector |-> fresh, map |-> [map EXCEPT ![doc] = fresh], created |-> TRUE]

\* get(document); on a miss createBlueConnector(globalObject) and set(document, it).
ResolveBlueConnector(map, doc, fresh) ==
    IF map[doc] = Undefined
    THEN [connector |-> fresh, map |-> [map EXCEPT ![doc] = fresh], created |-> TRUE]
    ELSE [connector |-> map[doc], map |-> map, created |-> FALSE]

\* createRedConnector(redWindow.eval): a new connector bound to this call's window.
createRedConnector(redWindow) == redWindow

\* new VirtualEnvironment({...}): a new object per call.
NewVirtualEnvironment(id) == id

LazyWindowKeys_IgnoreShape(shape, cache) == cache.keys

\* The key list handed to lazyRemapProperties for the window.
LazyWindowKeys(shape, cache) ==
    IF shouldUseDefaultGlobalOwnKeys(shape)
    THEN cache.keys
    ELSE filterWindowKeys(getFilteredGlobalOwnKeys(shape))

LazyWindowExclude_Never(keepAlive) == {}

\* keepAlive ? undefined : unforgeablePoisonedWindowKeys
LazyWindowExclude(keepAlive) == IF keepAlive THEN {} ELSE unforgeablePoisonedWindowKeys

FilterEndowments_NoRemove(endowments) ==
    [installed |-> assignFilteredGlobalDescriptorsFromPropertyDescriptorMap(EmptyMap, endowments),
     caller |-> endowments]

\* The two filters run on a fresh object; the caller's object is only read.
FilterEndowments(endowments) ==
    LET filteredEndowments0 == EmptyMap
        filteredEndowments1 ==
            assignFilteredGlobalDescriptorsFromPropertyDescriptorMap(filteredEndowments0, endowments)
        filteredEndowments2 == removeWindowDescriptors(filteredEndowments1)
    IN  [installed |-> filteredEndowments2, caller |-> endowments]

IFRAME_SANDBOX_ATTRIBUTE_VALUE == "allow-same-origin allow-scripts"

\* NodeProtoLastChildGetter on the document: its document element.
LastChild(doc) == "html"

ParentOf_BodyOrDocument(doc) == IF HasBody(doc) THEN "body" ELSE "document"

\* DocumentProtoBodyGetter(doc) ?? NodeProtoLastChildGetter(doc)
ParentOf(doc) == IF HasBody(doc) THEN "body" ELSE LastChild(doc)

\* An iframe element as createElement returns it.
NewIframeNode ==
    [display |-> "", sandbox |-> "", parent |-> "none", appends |-> 0,
     displayAtAppend |-> "", sandboxAtAppend |-> ""]

\* The statements of createDetachableIframe after createElement, in source order.
DetachableIframeSteps == <<"style_display", "setAttribute_sandbox", "appendChild">>

\* The effect of one of these statements on the iframe element.
ApplyIframeStep(node, step, doc) ==
    CASE step = "style_display" -> [node EXCEPT !.display = "none"]
      [] step = "setAttribute_sandbox" ->
            [node EXCEPT !.sandbox = IFRAME_SANDBOX_ATTRIBUTE_VALUE]
      [] step = "appendChild" ->
            [node EXCEPT !.parent = ParentOf(doc), !.appends = @ + 1,
                         !.displayAtAppend = node.display,
                         !.sandboxAtAppend = node.sandbox]
      [] OTHER -> node

RECURSIVE RunIframeSteps(_, _, _)
RunIframeSteps(node, steps, doc) ==
    IF steps = <<>> THEN node
    ELSE RunIframeSteps(ApplyIframeStep(node, Head(steps), doc), Tail(steps), doc)

\* The iframe element createDetachableIframe(doc) returns.
BuildIframe(doc) == RunIframeSteps(NewIframeNode, DetachableIframeSteps, doc)

createDetachableIframe_Retry(t, doc, iframe) ==
    [t EXCEPT ![doc] = Append(Append(@, iframe), iframe)]

\* createDetachableIframe: the new iframe becomes the last child of its parent.
createDetachableIframe(t, doc, iframe) == [t EXCEPT ![doc] = Append(@, iframe)]

ContentWindow_Shared(iframe) == 1

\* HTMLIFrameElementProtoContentWindowGetter: the window of this iframe.
ContentWindow(iframe) == iframe

\* ElementProtoRemove
RemoveIframe(t, doc, iframe) == [t EXCEPT ![doc] = SelectSeq(@, LAMBDA x : x # iframe)]

LifecycleSteps_Both(keepAlive) ==
    IF keepAlive THEN <<"open", "close", "remove">> ELSE <<"remove">>

\* The steps after the keepAlive decision.
LifecycleSteps(keepAlive) == IF keepAlive THEN <<"open", "close">> ELSE <<"remove">>

Steps_EndowmentsFirst(options) ==
    <<"createDetachableIframe", "contentWindow", "defaultGlobalOwnKeys", "blueConnector",
      "VirtualEnvironment", "linkIntrinsics", "link_document", "link_proto", "remapProto">>
    \o (IF options.endowments # "omitted" THEN <<"remapProperties_endowments">> ELSE <<>>)
    \o <<"lazyRemapProperties_window", "lazyRemapProperties_EventTarget">>
    \o LifecycleSteps(KeepAliveOf(options))

\* The statements of a call that passed validation, in source order.
Steps(options) ==
    <<"createDetachableIframe", "contentWindow", "defaultGlobalOwnKeys", "blueConnector",
      "VirtualEnvironment", "linkIntrinsics", "link_document", "link_proto", "remapProto",
      "lazyRemapProperties_window">>
    \o (IF options.endowments # "omitted" THEN <<"remapProperties_endowments">> ELSE <<>>)
    \o <<"lazyRemapProperties_EventTarget">>
    \o LifecycleSteps(KeepAliveOf(options))

\* Statements at which a collaborator may throw.
FailPoints == {"none", "blueConnector", "VirtualEnvironment", "linkIntrinsics"}

IndexOf(s, x) == CHOOSE i \in 1..Len(s) : s[i] = x

\* The statements completed when the statement failAt throws.
Executed(options, failAt) ==
    IF failAt = "none" THEN Steps(options)
    ELSE SubSeq(Steps(options), 1, IndexOf(Steps(options), failAt) - 1)

Did(steps, name) == name \in SeqToSet(steps)

\* The effect of one statement on the properties bridged on blueRefs.window.
ApplyRootStep(surface, step, keys, exclude, descs) ==
    CASE step = "lazyRemapProperties_window" -> lazyRemapProperties(surface, keys, exclude)
      [] step = "remapProperties_endowments" -> remapProperties(surface, descs)
      [] OTHER -> surface

\* The properties bridged on blueRefs.window by the statements run, in their order.
RECURSIVE RunRootSteps(_, _, _, _, _)
RunRootSteps(surface, steps, keys, exclude, descs) ==
    IF steps = <<>> THEN surface
    ELSE RunRootSteps(ApplyRootStep(surface, Head(steps), keys, exclude, descs),
                      Tail(steps), keys, exclude, descs)

\* The record kept of a call that threw at one of the two target checks.
RejectedCall(globalObject) ==
    [doc |-> "none", outcome |-> "threw_before_iframe", iframe |-> Undefined,
     redWindow |-> Undefined, blueConnector |-> Undefined, redConnector |-> Undefined,
     env |-> Undefined, wroteDefaultKeys |-> FALSE, defaultKeysPassed |-> NullKeys]

RejectedDetail(globalObject) ==
    [globalObject |-> globalObject, options |-> NoOptions, failAt |-> "none",
     steps |-> <<>>, lazyKeys |-> <<>>, lazyExclude |-> {}, root |-> EmptyMap,
     eventTarget |-> EmptyMap, endowInstalled |-> EmptyMap, endowmentsAfter |-> EmptyMap,
     createdBlueConnector |-> FALSE, iframeNode |-> NewIframeNode]

TargetRejected_NoTypeCheck(globalObject) ==
    \/ globalObject = "null"
    \/ getCachedGlobalObjectReferences(globalObject) = "none"

\* typeof globalObject !== 'object' || globalObject === null, then the same
\* test on the result of getCachedGlobalObjectReferences.
TargetRejected(globalObject) ==
    \/ TypeOf(globalObject) # "object"
    \/ globalObject = "null"
    \/ getCachedGlobalObjectReferences(globalObject) = "none"

\* A call that has not started.
IdleCall ==
    [pc |-> "idle", globalObject |-> "none", doc |-> "none", shape |-> "omitted",
     sawNull |-> FALSE, wrote |-> FALSE, found |-> Undefined, stored |-> FALSE,
     connector |-> Undefined, installed |-> NullKeys]

\* One call of createIframeVirtualEnvironment(globalObject, options), in
\* which the statement failAt (if any) throws.
createIframeVirtualEnvironment(globalObject, options, failAt) ==
    /\ Len(calls) < MaxCalls
    /\ UNCHANGED <<proc, overlap>>
    /\ IF TargetRejected(globalObject)
       THEN /\ options = NoOptions
            /\ failAt = "none"
            /\ calls' = Append(calls, RejectedCall(globalObject))
            /\ last' = RejectedDetail(globalObject)
            /\ UNCHANGED <<tree, defaultGlobalOwnKeys, blueDocumentToBlueCreateHooksCallbackMap>>
       ELSE LET id == Len(calls) + 1
                doc == getCachedGlobalObjectReferences(globalObject)
                keepAlive == KeepAliveOf(options)
                shape == options.globalObjectShape
                steps == Executed(options, failAt)
                iframe == id
                redWindow == ContentWindow(iframe)
                keysAfter == DefaultKeysAfter(globalObject, doc, shape, defaultGlobalOwnKeys)
                resolved == ResolveBlueConnector(blueDocumentToBlueCreateHooksCallbackMap, doc, id)
                gotBlue == Did(steps, "blueConnector")
                gotEnv == Did(steps, "VirtualEnvironment")
                gotLazy == Did(steps, "lazyRemapProperties_window")
                lazyKeys == IF gotLazy THEN LazyWindowKeys(shape, keysAfter) ELSE <<>>
                lazyExclude == IF gotLazy THEN LazyWindowExclude(keepAlive) ELSE {}
                gotEndow == Did(steps, "remapProperties_endowments")
                filtered == FilterEndowments(EndowmentMap(options.endowments))
                root2 == RunRootSteps(EmptyMap, steps, lazyKeys, lazyExclude, filtered.installed)
                tree1 == createDetachableIframe(tree, doc, iframe)
            IN  /\ failAt \in FailPoints
                /\ failAt = "blueConnector" => resolved.created
                /\ tree' = IF Did(steps, "remove") THEN RemoveIframe(tree1, doc, iframe) ELSE tree1
                /\ defaultGlobalOwnKeys' = keysAfter
                /\ blueDocumentToBlueCreateHooksCallbackMap' =
                       IF gotBlue THEN resolved.map ELSE blueDocumentToBlueCreateHooksCallbackMap
                /\ calls' = Append(calls,
                       [doc |-> doc,
                        outcome |-> IF failAt = "none" THEN "returned" ELSE "threw_after_iframe",
                        iframe |-> iframe,
                        redWindow |-> redWindow,
                        blueConnector |-> IF gotBlue THEN resolved.connector ELSE Undefined,
                        redConnector |-> IF gotEnv THEN createRedConnector(redWindow) ELSE Undefined,
                        env |-> IF gotEnv THEN NewVirtualEnvironment(id) ELSE Undefined,
                        wroteDefaultKeys |-> ShouldComputeDefaultKeys(shape, defaultGlobalOwnKeys),
                        defaultKeysPassed |->
                            IF gotLazy /\ shouldUseDefaultGlobalOwnKeys(shape)
                            THEN [isNull |-> FALSE, keys |-> lazyKeys] ELSE NullKeys])
                /\ last' =
                       [globalObject |-> globalObject, options |-> options, failAt |-> failAt,
                        steps |-> steps, lazyKeys |-> lazyKeys, lazyExclude |-> lazyExclude,
                        root |-> root2,
                        eventTarget |->
                            IF Did(steps, "lazyRemapProperties_EventTarget")
                            THEN lazyRemapProperties(EmptyMap, EventTargetProtoOwnKeys, {})
                            ELSE EmptyMap,
                        endowInstalled |-> IF gotEndow THEN filtered.installed ELSE EmptyMap,
                        endowmentsAfter |-> filtered.caller,
                        createdBlueConnector |-> gotBlue /\ resolved.created,
                        iframeNode |-> BuildIframe(doc)]

Init ==
    /\ tree = [d \in Docs |-> <<>>]
    /\ defaultGlobalOwnKeys = NullKeys
    /\ blueDocumentToBlueCreateHooksCallbackMap = [d \in Docs |-> Undefined]
    /\ calls = <<>>
    /\ last = RejectedDetail("none")
    /\ proc = [p \in Racers |-> IdleCall]
    /\ overlap = [keys |-> FALSE, connector |-> FALSE]

Next ==
    \E globalObject \in GlobalObjectInputs, options \in OptionInputs, failAt \in FailPoints :
        createIframeVirtualEnvironment(globalObject, options, failAt)

Spec == Init /\ [][Next]_vars

----------------------------------------------------------------------------
(* The same function with calls allowed to interleave between the null     *)
(* test and the write of defaultGlobalOwnKeys, and between the get and the *)
(* set of the connector map.  Each call passes validation, has keepAlive   *)
(* omitted and meets no exception.                                         *)

WriteDefaultKeys_Always(sawNull, globalObject, doc, cache) ==
    [cache |-> [isNull |-> FALSE, keys |-> ComputeDefaultKeys(globalObject, doc)],
     wrote |-> TRUE]

\* The body of the if: the assignment is made when the test had succeeded.
WriteDefaultKeys(sawNull, globalObject, doc, cache) ==
    IF sawNull
    THEN [cache |-> [isNull |-> FALSE, keys |-> ComputeDefaultKeys(globalObject, doc)],
          wrote |-> TRUE]
    ELSE [cache |-> cache, wrote |-> FALSE]

StoreConnector_Always(map, doc, found, fresh) ==
    [connector |-> fresh, map |-> [map EXCEPT ![doc] = fresh], stored |-> TRUE]

\* if (blueConnector === undefined) { create; set }, on the value get returned.
StoreConnector(map, doc, found, fresh) ==
    IF found = Undefined
    THEN [connector |-> fresh, map |-> [map EXCEPT ![doc] = fresh], stored |-> TRUE]
    ELSE [connector |-> found, map |-> map, stored |-> FALSE]

\* Lines 90-113: the target checks, the iframe, and the test of the cache.
Enter(p, globalObject, shape) ==
    /\ proc[p].pc = "idle"
    /\ ~TargetRejected(globalObject)
    /\ LET doc == getCachedGlobalObjectReferences(globalObject)
           sawNull == ShouldComputeDefaultKeys(shape, defaultGlobalOwnKeys)
       IN  /\ tree' = createDetachableIframe(tree, doc, p)
           /\ proc' = [proc EXCEPT ![p] = [@ EXCEPT !.pc = "tested", !.globalObject = globalObject,
                                                   !.doc = doc, !.shape = shape,
                                                   !.sawNull = sawNull]]
           /\ overlap' = [overlap EXCEPT !.keys =
                             @ \/ (sawNull /\ \E q \in Racers \ {p} :
                                        proc[q].pc = "tested" /\ proc[q].sawNull)]
    /\ UNCHANGED <<defaultGlobalOwnKeys, blueDocumentToBlueCreateHooksCallbackMap, calls, last>>

\* Line 114.
WriteKeys(p) ==
    /\ proc[p].pc = "tested"
    /\ LET w == WriteDefaultKeys(proc[p].sawNull, proc[p].globalObject, proc[p].doc,
                                 defaultGlobalOwnKeys)
       IN  /\ defaultGlobalOwnKeys' = w.cache
           /\ proc' = [proc EXCEPT ![p] = [@ EXCEPT !.pc = "keyed", !.wrote = w.wrote]]
    /\ UNCHANGED <<tree, blueDocumentToBlueCreateHooksCallbackMap, calls, last, overlap>>

\* Lines 116-118.
GetConnector(p) ==
    /\ proc[p].pc = "keyed"
    /\ LET found == blueDocumentToBlueCreateHooksCallbackMap[proc[p].doc]
       IN  /\ proc' = [proc EXCEPT ![p] = [@ EXCEPT !.pc = "got", !.found = found]]
           /\ overlap' = [overlap EXCEPT !.connector =
                             @ \/ (found = Undefined /\ \E q \in Racers \ {p} :
                                        /\ proc[q].pc = "got"
                                        /\ proc[q].doc = proc[p].doc
                                        /\ proc[q].found = Undefined)]
    /\ UNCHANGED <<tree, defaultGlobalOwnKeys, blueDocumentToBlueCreateHooksCallbackMap,
                   calls, last>>

\* Lines 119-122.
SetConnector(p) ==
    /\ proc[p].pc = "got"
    /\ LET r == StoreConnector(blueDocumentToBlueCreateHooksCallbackMap, proc[p].doc,
                               proc[p].found, p)
       IN  /\ blueDocumentToBlueCreateHooksCallbackMap' = r.map
           /\ proc' = [proc EXCEPT ![p] = [@ EXCEPT !.pc = "connected", !.stored = r.stored,
                                                   !.connector = r.connector]]
    /\ UNCHANGED <<tree, defaultGlobalOwnKeys, calls, last, overlap>>

\* Lines 123-180: the key list is read at the lazy install; the iframe is removed.
Finish(p) ==
    /\ proc[p].pc = "connected"
    /\ proc' = [proc EXCEPT ![p] =
                   [@ EXCEPT !.pc = "done",
                             !.installed =
                                 [isNull |-> shouldUseDefaultGlobalOwnKeys(proc[p].shape)
                                                /\ defaultGlobalOwnKeys.isNull,
                                  keys |-> LazyWindowKeys(proc[p].shape, defaultGlobalOwnKeys)]]]
    /\ tree' = RemoveIframe(tree, proc[p].doc, p)
    /\ UNCHANGED <<defaultGlobalOwnKeys, blueDocumentToBlueCreateHooksCallbackMap, calls, last,
                   overlap>>

NextInterleaved ==
    \E p \in Racers :
        \/ \E globalObject \in GlobalObjectInputs, shape \in ShapeInputs :
              Enter(p, globalObject, shape)
        \/ WriteKeys(p)
        \/ GetConnector(p)
        \/ SetConnector(p)
        \/ Finish(p)

SpecInterleaved == Init /\ [][NextInterleaved]_vars

----------------------------------------------------------------------------
(* Properties.                                                             *)

\* The short record of the most recent call.
Latest == calls[Len(calls)]

CallIds == 1..Len(calls)

\* The calls that reached the connector lookup for document d.
UsersOf(d) == {i \in CallIds : calls[i].doc = d /\ calls[i].blueConnector # Undefined}

\* C1: all calls against one host document use the same blue connector, the
\* one built by the first of them and still held by the cache; calls against
\* different documents use different connectors.
C1_ConnectorPerDocument ==
    /\ \A i \in CallIds, j \in CallIds :
          (calls[i].blueConnector # Undefined /\ calls[j].blueConnector # Undefined)
          => ((calls[i].doc = calls[j].doc) <=> (calls[i].blueConnector = calls[j].blueConnector))
    /\ \A d \in Docs : \A i \in UsersOf(d) :
          /\ blueDocumentToBlueCreateHooksCallbackMap[d] = calls[i].blueConnector
          /\ calls[i].blueConnector \in UsersOf(d)
          /\ \A j \in UsersOf(d) : calls[i].blueConnector <= j
    /\ \A d \in Docs :
          UsersOf(d) = {} => blueDocumentToBlueCreateHooksCallbackMap[d] = Undefined

\* Two calls against the same document, the second served from the cache.
C1_Witness ==
    /\ Len(calls) = 2
    /\ calls[1].doc = calls[2].doc
    /\ calls[1].blueConnector # Undefined
    /\ calls[2].blueConnector = calls[1].blueConnector
    /\ ~last.createdBlueConnector

\* The most recent call got past the two target checks.
LatestPassedValidation == Len(calls) > 0 /\ Latest.outcome # "threw_before_iframe"

LatestReturned == Len(calls) > 0 /\ Latest.outcome = "returned"

\* C2: a call whose keepAlive is false or omitted bridges no poisoned name
\* onto the host root, neither lazily from the key set nor from endowments.
C2_PoisonedOnlyWhenKeepAlive ==
    last.options.keepAlive # "true" =>
        /\ (DOMAIN last.root) \cap unforgeablePoisonedWindowKeys = {}
        /\ (DOMAIN last.endowInstalled) \cap unforgeablePoisonedWindowKeys = {}

\* A detaching call whose shape and endowments both name "window".
C2_Witness ==
    /\ LatestReturned
    /\ last.options.given /\ last.options.keepAlive = "false"
    /\ last.options.globalObjectShape = "shapeA"
    /\ last.options.endowments = "collide"
    /\ "alert" \in DOMAIN last.root

InTree(iframe, doc) == iframe \in SeqToSet(tree[doc])

\* The open and close calls on the sandbox document, in order.
RedDocumentOps == SelectSeq(last.steps, LAMBDA x : x \in {"open", "close"})

\* C3: a returned call with keepAlive false or omitted has removed its iframe
\* and never opened or closed the sandbox document; with keepAlive true the
\* iframe is attached and the document was opened, then at once closed, once.
C3_DetachOrPreserve ==
    LatestReturned =>
        IF last.options.keepAlive = "true"
        THEN /\ InTree(Latest.iframe, Latest.doc)
             /\ RedDocumentOps = <<"open", "close">>
             /\ \E k \in 1..(Len(last.steps) - 1) :
                    last.steps[k] = "open" /\ last.steps[k + 1] = "close"
        ELSE /\ ~InTree(Latest.iframe, Latest.doc)
             /\ RedDocumentOps = <<>>

\* A call with options undefined returned after a keepAlive call.
C3_Witness ==
    /\ Len(calls) = 2
    /\ calls[1].outcome = "returned" /\ InTree(calls[1].iframe, calls[1].doc)
    /\ LatestReturned /\ ~last.options.given
    /\ ~InTree(Latest.iframe, Latest.doc)

\* C4: a call whose target is not a non-null object, or for which no
\* references are resolved, throws before an iframe exists and leaves the
\* document trees and both caches as they were.
C4_RejectedTargetChangesNothing ==
    [][(Len(calls') = Len(calls) + 1 /\
        (\/ TypeOf(last'.globalObject) # "object"
         \/ last'.globalObject = "null"
         \/ getCachedGlobalObjectReferences(last'.globalObject) = "none"))
       => /\ calls'[Len(calls')].outcome = "threw_before_iframe"
          /\ calls'[Len(calls')].iframe = Undefined
          /\ last'.steps = <<>>
          /\ tree' = tree
          /\ defaultGlobalOwnKeys' = defaultGlobalOwnKeys
          /\ blueDocumentToBlueCreateHooksCallbackMap' =
                 blueDocumentToBlueCreateHooksCallbackMap]_vars

\* A function is rejected after an earlier call left an iframe and both caches filled.
C4_Witness ==
    /\ Len(calls) = 2
    /\ calls[1].outcome = "returned" /\ InTree(calls[1].iframe, calls[1].doc)
    /\ ~defaultGlobalOwnKeys.isNull
    /\ last.globalObject = "fn"
    /\ Latest.outcome = "threw_before_iframe"

Writers == {i \in CallIds : calls[i].wroteDefaultKeys}

\* C5: the default key cache is written at most once, by the first call
\* without a custom shape, and never changes afterwards; every call without
\* a custom shape hands the cached sequence to the lazy installation.
C5_DefaultKeysWrittenOnce ==
    /\ [](/\ Cardinality(Writers) <= 1
          /\ defaultGlobalOwnKeys.isNull <=> Writers = {}
          /\ (LatestPassedValidation /\
               last.options.globalObjectShape \notin {"shapeA"})
              => ~defaultGlobalOwnKeys.isNull
          /\ \A i \in CallIds :
                ~calls[i].defaultKeysPassed.isNull
                => calls[i].defaultKeysPassed = defaultGlobalOwnKeys)
    /\ [][~defaultGlobalOwnKeys.isNull => defaultGlobalOwnKeys' = defaultGlobalOwnKeys]_vars

\* Two returned calls without a custom shape, against different documents.
C5_Witness ==
    /\ Len(calls) = 2
    /\ calls[1].doc # calls[2].doc
    /\ calls[1].wroteDefaultKeys /\ ~calls[2].wroteDefaultKeys
    /\ ~calls[1].defaultKeysPassed.isNull
    /\ ~calls[2].defaultKeysPassed.isNull

LatestThrewAfterIframe(cs) == Len(cs) > 0 /\ cs[Len(cs)].outcome = "threw_after_iframe"

\* C6 as stated: a call that fails after its iframe was attached leaves both
\* caches holding what they held before the call.
C6_FailureLeavesCachesAsBefore ==
    [][(Len(calls') = Len(calls) + 1 /\ LatestThrewAfterIframe(calls'))
       => /\ defaultGlobalOwnKeys' = defaultGlobalOwnKeys
          /\ blueDocumentToBlueCreateHooksCallbackMap' =
                 blueDocumentToBlueCreateHooksCallbackMap]_vars

\* C6, amended: a call that fails after its iframe was attached leaves that
\* one iframe attached and never replaces or removes a cached value; it may
\* have filled the default key cache (if it was null and the call has no
\* custom shape) and the connector entry of its document (if there was none
\* and the failure came after the connector was built).
C6_FailureOnlyFillsEmptyCaches ==
    [][(Len(calls') = Len(calls) + 1 /\ LatestThrewAfterIframe(calls'))
       => LET c == calls'[Len(calls')]
          IN  /\ tree' = [tree EXCEPT ![c.doc] = Append(@, c.iframe)]
              /\ ~defaultGlobalOwnKeys.isNull => defaultGlobalOwnKeys' = defaultGlobalOwnKeys
              /\ defaultGlobalOwnKeys' # defaultGlobalOwnKeys
                 => /\ last'.options.globalObjectShape \notin {"shapeA"}
                    /\ ~defaultGlobalOwnKeys'.isNull
              /\ \A d \in Docs :
                    /\ blueDocumentToBlueCreateHooksCallbackMap[d] # Undefined
                       => blueDocumentToBlueCreateHooksCallbackMap'[d] =
                             blueDocumentToBlueCreateHooksCallbackMap[d]
                    /\ blueDocumentToBlueCreateHooksCallbackMap'[d] #
                          blueDocumentToBlueCreateHooksCallbackMap[d]
                       => (d = c.doc /\ last'.failAt # "blueConnector")]_vars

\* The membrane constructor throws in a call that had just built and stored
\* the connector of its document, after an earlier call filled the key cache.
C6_Witness ==
    /\ Len(calls) = 2
    /\ calls[1].wroteDefaultKeys
    /\ LatestThrewAfterIframe(calls)
    /\ last.failAt = "VirtualEnvironment"
    /\ last.createdBlueConnector
    /\ InTree(Latest.iframe, Latest.doc)

\* Names owned by the global object: intrinsics and window-owned names.
OwnedNames == ESGlobalKeys \cup WindowDescriptorNames

GivenEndowments == EndowmentMap(last.options.endowments)

\* C7: what reaches remapProperties holds no owned name, holds every other
\* endowment with the descriptor supplied, and the caller's object is intact;
\* an owned name on the root keeps its lazy bridge.
C7_EndowmentsFilteredBeforeInstall ==
    (LatestReturned /\ last.options.endowments # "omitted") =>
        /\ (DOMAIN last.endowInstalled) \cap OwnedNames = {}
        /\ \A n \in (DOMAIN GivenEndowments) \ OwnedNames :
              /\ n \in DOMAIN last.endowInstalled
              /\ last.endowInstalled[n] = GivenEndowments[n]
              /\ last.root[n] = [kind |-> "eager", value |-> GivenEndowments[n]]
        /\ \A n \in (DOMAIN GivenEndowments) \cap OwnedNames :
              n \in DOMAIN last.root => last.root[n].kind = "lazy"
        /\ last.endowmentsAfter = GivenEndowments

\* Endowments naming document, window and Object in a keepAlive call, where
\* window is bridged lazily.
C7_Witness ==
    /\ LatestReturned
    /\ last.options.endowments = "collide"
    /\ last.options.keepAlive = "true"
    /\ "window" \in DOMAIN last.root
    /\ "alert" \in DOMAIN last.endowInstalled

\* The eligible key set of the most recent call, from its inputs.
EligibleKeys ==
    SeqToSet(IF last.options.globalObjectShape = "shapeA"
             THEN filterWindowKeys(getFilteredGlobalOwnKeys("shapeA"))
             ELSE defaultGlobalOwnKeys.keys)
    \ (IF last.options.keepAlive = "true" THEN {} ELSE unforgeablePoisonedWindowKeys)

\* C8: the names a returned call bridges on the host root are exactly the
\* eligible key set united with the endowment names that are not owned.
C8_RootIsUnion ==
    LatestReturned =>
        DOMAIN last.root = EligibleKeys \cup ((DOMAIN GivenEndowments) \ OwnedNames)

\* A custom shape with colliding endowments.
C8_Witness ==
    /\ LatestReturned
    /\ last.options.globalObjectShape = "shapeA"
    /\ last.options.endowments = "collide"
    /\ DOMAIN last.root = {"alert", "foo"}

Passed(i) == calls[i].outcome # "threw_before_iframe"

AttachedIframes == UNION {SeqToSet(tree[d]) : d \in Docs}

CustomKeysPerCall ==
    (LatestReturned /\ last.options.globalObjectShape = "shapeA")
    => /\ last.lazyKeys = filterWindowKeys(getFilteredGlobalOwnKeys("shapeA"))
       /\ ~Latest.wroteDefaultKeys
       /\ Latest.defaultKeysPassed.isNull

\* C10 as stated: the cached default key set is the filtered key list of the
\* caller's global object.
C10_DefaultKeysFromHostGlobal ==
    /\ (Len(calls) > 0 /\ Latest.wroteDefaultKeys)
       => defaultGlobalOwnKeys.keys =
             filterWindowKeys(getFilteredGlobalOwnKeys(last.globalObject))
    /\ CustomKeysPerCall

\* C10, amended: the cached default key set is derived once, from the own
\* keys of the sandbox window of the call that filled the cache; a custom
\* key set is derived on each call from the shape and never cached.
C10_DefaultKeysFromSandboxWindow ==
    /\ (Len(calls) > 0 /\ Latest.wroteDefaultKeys)
       => defaultGlobalOwnKeys =
             [isNull |-> FALSE, keys |-> filterWindowKeys(getFilteredRedOwnKeys(Latest.doc))]
    /\ Cardinality(Writers) <= 1
    /\ \A i \in Writers :
          defaultGlobalOwnKeys.keys = filterWindowKeys(getFilteredRedOwnKeys(calls[i].doc))
    /\ defaultGlobalOwnKeys.isNull <=> Writers = {}
    /\ CustomKeysPerCall

\* A custom-shape call left the cache null; the next call filled it.
C10_Witness ==
    /\ Len(calls) = 2
    /\ calls[1].outcome = "returned"
    /\ calls[1].defaultKeysPassed.isNull
    /\ ~calls[1].wroteDefaultKeys
    /\ Latest.wroteDefaultKeys
    /\ LatestReturned
    /\ "appGlobal" \in SeqToSet(OwnKeys(last.globalObject))

\* The most recent call left its iframe in the tree, as the last child.
LatestIframeIsLastChild ==
    InTree(Latest.iframe, Latest.doc)
    => /\ tree[Latest.doc][Len(tree[Latest.doc])] = Latest.iframe
       /\ Cardinality({k \in 1..Len(tree[Latest.doc]) : tree[Latest.doc][k] = Latest.iframe}) = 1

\* One appendChild, made once display and sandbox were set.
AppendedOnceWhenConfigured ==
    /\ last.iframeNode.appends = 1
    /\ last.iframeNode.displayAtAppend = "none"
    /\ last.iframeNode.sandboxAtAppend = IFRAME_SANDBOX_ATTRIBUTE_VALUE

ConfigurationOrder ==
    <<"blueConnector", "VirtualEnvironment", "linkIntrinsics", "link_document", "link_proto",
      "remapProto", "lazyRemapProperties_window", "remapProperties_endowments",
      "lazyRemapProperties_EventTarget">>

\* The configuration statements the most recent call ran, in the order it ran them.
ConfigurationRun == SelectSeq(last.steps, LAMBDA x : x \in SeqToSet(ConfigurationOrder))

\* C12: a returned call ran the configuration statements once each in the
\* fixed order, the endowment install present only when endowments were
\* given and after the lazy install of the key set, so that a name in both
\* ends as the endowment's descriptor.
C12_FixedConfigurationOrder ==
    LatestReturned =>
        /\ ConfigurationRun =
              SelectSeq(ConfigurationOrder,
                        LAMBDA x : x = "remapProperties_endowments"
                                   => last.options.endowments # "omitted")
        /\ \A n \in EligibleKeys \cap (DOMAIN last.endowInstalled) :
              last.root[n] = [kind |-> "eager", value |-> GivenEndowments[n]]

\* The endowment alert = 9 on top of the default key alert.
C12_Witness ==
    /\ LatestReturned
    /\ last.options.endowments = "collide"
    /\ last.options.globalObjectShape = "omitted"
    /\ "alert" \in EligibleKeys
    /\ last.root["alert"].kind = "eager"

\* The lifecycle statements the most recent call ran.
LifecycleRun == SelectSeq(last.steps, LAMBDA x : x \in {"open", "close", "remove"})

\* C13: a returned call performed exactly one lifecycle action, Detach or
\* Preserve, as its last statements, after every link, remap and cache
\* statement; a call that threw performed none.
C13_LifecycleOnceAtEnd ==
    /\ LatestReturned =>
          /\ LifecycleRun \in {<<"remove">>, <<"open", "close">>}
          /\ SubSeq(last.steps, Len(last.steps) - Len(LifecycleRun) + 1, Len(last.steps))
                = LifecycleRun
          /\ \A x \in SeqToSet(ConfigurationOrder) \cup {"defaultGlobalOwnKeys"} :
                x \in SeqToSet(last.steps) =>
                    IndexOf(last.steps, x) <= Len(last.steps) - Len(LifecycleRun)
    /\ ~LatestReturned => LifecycleRun = <<>>

\* A keepAlive call with endowments ran all its statements, then open and close.
C13_Witness ==
    /\ LatestReturned
    /\ last.options.keepAlive = "true"
    /\ last.options.endowments = "foo42"
    /\ LifecycleRun = <<"open", "close">>
    /\ Did(last.steps, "lazyRemapProperties_EventTarget")

\* The call just made leaves its iframe behind: it returned with keepAlive
\* true, or it threw after the iframe was attached.
LeavesIframe(c, detail) ==
    \/ c.outcome = "returned" /\ detail.options.keepAlive = "true"
    \/ c.outcome = "threw_after_iframe"

\* C14: each call changes the number of attached iframes by one if it
\* returned with keepAlive true or threw after attaching, and by nothing
\* otherwise; so the attached iframes always number those calls.
C14_AttachedIframesCounted ==
    [][Len(calls') = Len(calls) + 1
       => LET c == calls'[Len(calls')]
          IN  \A d \in Docs :
                Len(tree'[d]) =
                    Len(tree[d]) + (IF d = c.doc /\ LeavesIframe(c, last') THEN 1 ELSE 0)]_vars

\* One iframe left by a keepAlive call and one by a call that threw.
C14_Witness ==
    /\ Len(calls) = 2
    /\ calls[1].outcome = "returned" /\ InTree(calls[1].iframe, calls[1].doc)
    /\ Latest.outcome = "threw_after_iframe" /\ InTree(Latest.iframe, Latest.doc)
    /\ Cardinality(AttachedIframes) = 2

\* Calls of the interleaved reading that are past the connector store.
Connected == {p \in Racers : proc[p].pc \in {"connected", "done"}}

Keyed == {p \in Racers : proc[p].pc \in {"keyed", "got", "connected", "done"}}

\* Calls of the interleaved reading that installed the default keys.
InstalledDefault ==
    {p \in Racers : proc[p].pc = "done" /\ shouldUseDefaultGlobalOwnKeys(proc[p].shape)}

\* The key sequences written by the calls that wrote.
WrittenKeys ==
    {ComputeDefaultKeys(proc[p].globalObject, proc[p].doc) : p \in {q \in Keyed : proc[q].wrote}}

C17_ShapeCallBypassesCache ==
    [][(/\ Len(calls') = Len(calls) + 1
        /\ calls'[Len(calls')].outcome # "threw_before_iframe"
        /\ TypeOf(last'.options.globalObjectShape) = "object"
        /\ last'.options.globalObjectShape # "null")
       => /\ defaultGlobalOwnKeys' = defaultGlobalOwnKeys
          /\ Did(last'.steps, "lazyRemapProperties_window")
             => last'.lazyKeys =
                    filterWindowKeys(getFilteredGlobalOwnKeys(last'.options.globalObjectShape))]_vars

\* A shape call returned after an earlier call had filled the cache, and
\* installed keys other than the cached ones.
C17_Witness ==
    /\ Len(calls) = 2
    /\ calls[1].wroteDefaultKeys
    /\ LatestReturned
    /\ last.options.globalObjectShape = "shapeA"
    /\ ~defaultGlobalOwnKeys.isNull
    /\ defaultGlobalOwnKeys.keys =
           filterWindowKeys(getFilteredRedOwnKeys(calls[1].doc))
    /\ last.lazyKeys # defaultGlobalOwnKeys.keys

====
